---- MODULE Spec2Model ----
(***************************************************************************)
(* Model of pymc.func_utils.find_optim_prior (src/pymc/func_utils.py).     *)
(*                                                                         *)
(* One behaviour is one call.  The arguments are chosen in Init, every     *)
(* statement group of the function is one action, and the outcomes of the  *)
(* external collaborators (distribution constructor, pm.gradient,          *)
(* aesara.function, scipy.optimize.least_squares) are nondeterministic.    *)
(*                                                                         *)
(* Probabilities are integers in units of 0.01 (percent): mass = 95 is     *)
(* the default 0.95, the assertion bounds 0.01 and 0.99 are 1 and 99 and   *)
(* the warning tolerance 0.01 is 1.                                        *)
(*                                                                         *)
(* A Python dict is a sequence of <<key, value>> pairs with distinct keys, *)
(* in insertion order.                                                     *)
(***************************************************************************)
EXTENDS Integers, Sequences, FiniteSets, TLC

\* ---------------------------------------------------------------- bounds
\* parameter values (initial guesses, fixed values, solver results): 1..MaxVal
MaxVal == 2
\* largest number of keys of init_guess
MaxFree == 3

\* ------------------------------------------------------ program constants
\* assert 0.01 < mass < 0.99
MassLo == 1
MassHi == 99
\* if np.abs(mass_in_interval - mass) >= 0.01
Tol == 1

\* ----------------------------------------------------------------- inputs
ParamNames == {"mu", "sigma", "nu"}
Vals == 1..MaxVal
\* interval end points: lower < upper, lower = upper and lower > upper all occur
Points == {0, 1}
Masses == {0, 1, 2, 98, 99, 100}

\* The distribution classes a caller may pass: ndims_params of the class's
\* rv_op, the parameter names its constructor takes, whether it has a logcdf.
Families ==
  { [name |-> "Normal",      ndims_params |-> <<0, 0>>,    params |-> {"mu", "sigma"},       has_logcdf |-> TRUE],
    [name |-> "StudentT",    ndims_params |-> <<0, 0, 0>>, params |-> {"nu", "mu", "sigma"}, has_logcdf |-> TRUE],
    [name |-> "Rice",        ndims_params |-> <<0, 0>>,    params |-> {"nu", "sigma"},       has_logcdf |-> FALSE],
    [name |-> "Multinomial", ndims_params |-> <<0, 1>>,    params |-> {"n", "p"},            has_logcdf |-> FALSE],
    [name |-> "MvNormal",    ndims_params |-> <<1, 2>>,    params |-> {"mu", "cov"},         has_logcdf |-> FALSE] }

\* ------------------------------------------------------------ Python dicts
Keys(d) == { d[i][1] : i \in 1..Len(d) }

KeySeq(d) == [i \in 1..Len(d) |-> d[i][1]]

Values(d) == [i \in 1..Len(d) |-> d[i][2]]

HasKey(d, k) == k \in Keys(d)

Get(d, k) == d[CHOOSE i \in 1..Len(d) : d[i][1] = k][2]

\* d[k] = v: an existing key keeps its position, a new key is appended
SetItem(d, k, v) ==
  IF HasKey(d, k)
    THEN [i \in 1..Len(d) |-> IF d[i][1] = k THEN <<k, v>> ELSE d[i]]
    ELSE Append(d, <<k, v>>)

\* d.update(e)
RECURSIVE Update(_, _)
Update(d, e) ==
  IF e = <<>> THEN d ELSE Update(SetItem(d, Head(e)[1], Head(e)[2]), Tail(e))

\* zip(a, b): stops at the shorter one
Min(a, b) == IF a < b THEN a ELSE b

Zip(a, b) == [i \in 1..Min(Len(a), Len(b)) |-> <<a[i], b[i]>>]

\* the dicts with distinct keys from K, values from V, at most n entries
RECURSIVE Dicts(_, _, _)
Dicts(K, V, n) ==
  IF n = 0 THEN { <<>> }
  ELSE LET shorter == Dicts(K, V, n - 1)
       IN  shorter \cup
           UNION { { Append(d, <<k, v>>) : k \in K \ Keys(d), v \in V } :
                   d \in { s \in shorter : Len(s) = n - 1 } }

\* ------------------------------------------------------------------ state
VARIABLES
  pm_dist, lower, upper, init_guess, mass, fixed_params,  \* the arguments
  pc,               \* the statement the call is at
  params_to_optim,  \* dict: name -> dist_params[i] or a fixed constant
  jac,              \* "unset", "analytic" (compiled gradient) or "2-point"
  grad_failed,      \* whether pm.gradient or aesara.function raised
  solver_args,      \* what least_squares was invoked with
  opt,              \* the OptimizeResult: status and x
  opt_params,       \* dict of the optimal parameters
  mass_in_interval, \* the mass re-evaluated at opt_params
  result,           \* what the call returned
  error,            \* the exception the call ended with
  calls             \* how often each stage ran

args == <<pm_dist, lower, upper, init_guess, mass, fixed_params>>

locals == <<params_to_optim, jac, grad_failed, solver_args, opt, opt_params,
            mass_in_interval, result, error, calls>>

vars == <<args, pc, locals>>

NoError == [kind |-> "none", about |-> ""]

NoCalls == [shape |-> 0, dist |-> 0, logcdf |-> 0, residual |-> 0, gradient |-> 0,
            solver |-> 0, validate |-> 0, warn |-> 0]

\* fixed_params is None (present = FALSE) or a dict
FixedChoices ==
  { [present |-> FALSE, items |-> <<>>] } \cup
  { [present |-> TRUE, items |-> d] : d \in Dicts(ParamNames, Vals, 1) }

Init ==
  /\ pm_dist \in Families
  /\ lower \in Points
  /\ upper \in Points
  /\ init_guess \in Dicts(ParamNames, Vals, MaxFree)
  /\ mass \in Masses
  /\ fixed_params \in FixedChoices
  /\ pc = "assert_mass"
  /\ params_to_optim = <<>>
  /\ jac = "unset"
  /\ grad_failed = FALSE
  /\ solver_args = [x0 |-> <<>>, jac |-> "unset"]
  /\ opt = [status |-> "none", x |-> <<>>]
  /\ opt_params = <<>>
  /\ mass_in_interval = 0
  /\ result = [returned |-> FALSE, value |-> <<>>]
  /\ error = NoError
  /\ calls = NoCalls

Raise(kind, about) ==
  /\ pc' = "raised"
  /\ error' = [kind |-> kind, about |-> about]

Bump(stage) == [calls EXCEPT ![stage] = @ + 1]

\* ------------------------------------------------------- lines 72-73
\* the bounds taken as inclusive: 0.01 <= mass <= 0.99
MassOkInclusive(m) == MassLo <= m /\ m <= MassHi

MassOk(m) == MassLo < m /\ m < MassHi

AssertMass ==
  /\ pc = "assert_mass"
  /\ IF MassOk(mass)
       THEN pc' = "check_shape" /\ UNCHANGED error
       ELSE Raise("AssertionError", "")
  /\ UNCHANGED <<args, params_to_optim, jac, grad_failed, solver_args, opt,
                 opt_params, mass_in_interval, result, calls>>

\* ------------------------------------------------------- lines 75-80
\* only the first parameter's shape is looked at
FirstNonScalar(ndims_params) ==
  Len(ndims_params) > 0 /\ ndims_params[1] # 0

\* np.any(np.asarray(ndims_params) != 0)
AnyNonScalar(ndims_params) ==
  \E i \in 1..Len(ndims_params) : ndims_params[i] # 0

CheckShape ==
  /\ pc = "check_shape"
  /\ calls' = Bump("shape")
  /\ IF AnyNonScalar(pm_dist.ndims_params)
       THEN Raise("NotImplementedError", "")
       ELSE pc' = "build_params" /\ UNCHANGED error
  /\ UNCHANGED <<args, params_to_optim, jac, grad_failed, solver_args, opt,
                 opt_params, mass_in_interval, result>>

\* ------------------------------------------------------- lines 82-88
\* dist_params[i]: the i-th component (from 0) of the optimization vector
DistParam(i) == [kind |-> "var", n |-> i]

Const(v) == [kind |-> "const", n |-> v]

ConstItems(d) == [i \in 1..Len(d) |-> <<d[i][1], Const(d[i][2])>>]

\* range(n)
PyRange(n) == [i \in 1..n |-> i - 1]

ParamsToOptim(guess, fixed) ==
  LET pairs == Zip(KeySeq(guess), PyRange(Len(guess)))
      bound == [j \in 1..Len(pairs) |-> <<pairs[j][1], DistParam(pairs[j][2])>>]
  IN  IF fixed.present THEN Update(bound, ConstItems(fixed.items)) ELSE bound

BuildParams ==
  /\ pc = "build_params"
  /\ params_to_optim' = ParamsToOptim(init_guess, fixed_params)
  /\ pc' = "build_dist"
  /\ UNCHANGED <<args, jac, grad_failed, solver_args, opt, opt_params,
                 mass_in_interval, result, error, calls>>

\* ------------------------------------------------------- line 90
\* pm_dist.dist(**kwargs) takes the family's parameters by keyword: a name the
\* family does not have is refused, a call naming exactly the family's
\* parameters succeeds, and one leaving some out succeeds where the family has
\* defaults for them.
DistRefuses(family, names) == ~(names \subseteq family.params)

DistAccepts(family, names) == names = family.params

BuildDist ==
  /\ pc = "build_dist"
  /\ calls' = Bump("dist")
  /\ \E accepted \in BOOLEAN :
       /\ DistAccepts(pm_dist, Keys(params_to_optim)) => accepted
       /\ DistRefuses(pm_dist, Keys(params_to_optim)) => ~accepted
       /\ IF accepted
            THEN pc' = "logcdf" /\ UNCHANGED error
            ELSE Raise("TypeError", "")
  /\ UNCHANGED <<args, params_to_optim, jac, grad_failed, solver_args, opt,
                 opt_params, mass_in_interval, result>>

\* ------------------------------------------------------- lines 92-103
\* aesara.function([dist_params], cdf_error) refuses an input that is not part
\* of the graph of its output: some parameter must be bound to dist_params[i]
UsesDistParams(params) ==
  \E i \in 1..Len(params) : params[i][2].kind = "var"

\* the except clause swallows the missing logcdf and the call goes on
BuildResidualSwallows ==
  /\ pc = "logcdf"
  /\ IF UsesDistParams(params_to_optim)
       THEN /\ calls' = [calls EXCEPT !.logcdf = @ + (IF pm_dist.has_logcdf THEN 2 ELSE 1),
                                      !.residual = @ + 1]
            /\ pc' = "jacobian"
            /\ UNCHANGED error
       ELSE /\ calls' = [calls EXCEPT !.logcdf = @ + (IF pm_dist.has_logcdf THEN 2 ELSE 1)]
            /\ Raise("UnusedInputError", "")
  /\ UNCHANGED <<args, params_to_optim, jac, grad_failed, solver_args, opt,
                 opt_params, mass_in_interval, result>>

\* pm.logcdf at lower, then at upper; a family without logcdf fails at the
\* first.  Then cdf_error is compiled into cdf_error_fn.
BuildResidual ==
  /\ pc = "logcdf"
  /\ CASE ~pm_dist.has_logcdf ->
              /\ calls' = Bump("logcdf")
              /\ Raise("AttributeError", pm_dist.name)
         [] pm_dist.has_logcdf /\ ~UsesDistParams(params_to_optim) ->
              /\ calls' = [calls EXCEPT !.logcdf = @ + 2]
              /\ Raise("UnusedInputError", "")
         [] OTHER ->
              /\ calls' = [calls EXCEPT !.logcdf = @ + 2, !.residual = @ + 1]
              /\ pc' = "jacobian"
              /\ UNCHANGED error
  /\ UNCHANGED <<args, params_to_optim, jac, grad_failed, solver_args, opt,
                 opt_params, mass_in_interval, result>>

\* ------------------------------------------------------- lines 105-111
GradientOutcomes == {"none", "gradient", "function"}

\* only pm.gradient is inside the try: a failure of aesara.function escapes
JacobianCompileEscapes ==
  /\ pc = "jacobian"
  /\ calls' = Bump("gradient")
  /\ \E failure \in GradientOutcomes :
       /\ grad_failed' = (failure # "none")
       /\ IF failure = "function"
            THEN Raise("GradientError", "") /\ UNCHANGED jac
            ELSE /\ jac' = IF failure = "none" THEN "analytic" ELSE "2-point"
                 /\ pc' = "solve"
                 /\ UNCHANGED error
  /\ UNCHANGED <<args, params_to_optim, solver_args, opt, opt_params,
                 mass_in_interval, result>>

\* try: pm.gradient, aesara.function  except Exception: jac = "2-point"
Jacobian ==
  /\ pc = "jacobian"
  /\ calls' = Bump("gradient")
  /\ \E failure \in GradientOutcomes :
       /\ grad_failed' = (failure # "none")
       /\ jac' = IF failure = "none" THEN "analytic" ELSE "2-point"
  /\ pc' = "solve"
  /\ UNCHANGED <<args, params_to_optim, solver_args, opt, opt_params,
                 mass_in_interval, result, error>>

\* ------------------------------------------------------- lines 113-115
\* the starting vector in the order of the sorted values
RECURSIVE SortedInsert(_, _)
SortedInsert(s, v) ==
  IF s = <<>> THEN <<v>>
  ELSE IF v <= Head(s) THEN <<v>> \o s
  ELSE <<Head(s)>> \o SortedInsert(Tail(s), v)

RECURSIVE Sorted(_)
Sorted(s) == IF s = <<>> THEN <<>> ELSE SortedInsert(Sorted(Tail(s)), Head(s))

X0Sorted(guess) == Sorted(Values(guess))

\* x0 = list(init_guess.values())
X0(guess) == Values(guess)

\* least_squares returns x of the shape of x0
Vectors(n) == [1..n -> Vals]

SolverOutcomes == {"converged", "not_converged", "raised"}

\* opt.success is not looked at
SolveIgnoresSuccess ==
  /\ pc = "solve"
  /\ calls' = Bump("solver")
  /\ solver_args' = [x0 |-> Values(init_guess), jac |-> jac]
  /\ \E status \in SolverOutcomes :
       IF status = "raised"
         THEN /\ Raise("SolverException", "")
              /\ UNCHANGED opt
         ELSE /\ \E x \in Vectors(Len(init_guess)) : opt' = [status |-> status, x |-> x]
              /\ pc' = "save_params"
              /\ UNCHANGED error
  /\ UNCHANGED <<args, params_to_optim, jac, grad_failed, opt_params,
                 mass_in_interval, result>>

Solve ==
  /\ pc = "solve"
  /\ calls' = Bump("solver")
  /\ solver_args' = [x0 |-> X0(init_guess), jac |-> jac]
  /\ \E status \in SolverOutcomes :
       CASE status = "raised" ->
              /\ Raise("SolverException", "")
              /\ UNCHANGED opt
         [] status = "not_converged" ->
              /\ \E x \in Vectors(Len(init_guess)) : opt' = [status |-> status, x |-> x]
              /\ Raise("ValueError", "Optimization of parameters failed.")
         [] status = "converged" ->
              /\ \E x \in Vectors(Len(init_guess)) : opt' = [status |-> status, x |-> x]
              /\ pc' = "save_params"
              /\ UNCHANGED error
  /\ UNCHANGED <<args, params_to_optim, jac, grad_failed, opt_params,
                 mass_in_interval, result>>

\* ------------------------------------------------------- lines 117-122
\* the fixed values first, the solved ones written over them
OptParamsSolvedWins(guess, x, fixed) ==
  LET solved == Zip(KeySeq(guess), x)
  IN  IF fixed.present THEN Update(fixed.items, solved) ELSE solved

OptParams(guess, x, fixed) ==
  LET solved == Zip(KeySeq(guess), x)
  IN  IF fixed.present THEN Update(solved, fixed.items) ELSE solved

RECURSIVE SumValues(_)
SumValues(d) == IF d = <<>> THEN 0 ELSE Head(d)[2] + SumValues(Tail(d))

Clamp(v) == IF v < 0 THEN 0 ELSE IF v > 100 THEN 100 ELSE v

\* exp(logcdf(dist, q)) in percent: the family's CDF at q under the parameter
\* assignment, here a scale family whose rate is the sum of its parameters
Cdf(params, q) == Clamp(q * SumValues(params))

\* exp(logcdf(opt_dist, upper)) - exp(logcdf(opt_dist, lower))
MassInInterval(params, lo, up) == Cdf(params, up) - Cdf(params, lo)

Abs(v) == IF v < 0 THEN 0 - v ELSE v

\* a deviation of exactly 0.01 does not warn
TooFarStrict(achieved, wanted) == Abs(achieved - wanted) > Tol

\* np.abs(mass_in_interval - mass) >= 0.01
TooFar(achieved, wanted) == Abs(achieved - wanted) >= Tol

\* save the optimal parameters, check the mass in the interval, return
Validate ==
  /\ pc = "save_params"
  /\ opt_params' = OptParams(init_guess, opt.x, fixed_params)
  /\ mass_in_interval' = MassInInterval(opt_params', lower, upper)
  /\ calls' = [calls EXCEPT !.dist = @ + 1, !.logcdf = @ + 2, !.validate = @ + 1,
                            !.warn = IF TooFar(mass_in_interval', mass) THEN @ + 1 ELSE @]
  /\ result' = [returned |-> TRUE, value |-> opt_params']
  /\ pc' = "returned"
  /\ UNCHANGED <<args, params_to_optim, jac, grad_failed, solver_args, opt, error>>

\* ---------------------------------------------------------- specification
Next ==
  \/ AssertMass
  \/ CheckShape
  \/ BuildParams
  \/ BuildDist
  \/ BuildResidual
  \/ Jacobian
  \/ Solve
  \/ Validate

Spec == Init /\ [][Next]_vars

\* ------------------------------------------------------------------ claims
FixedKeys == IF fixed_params.present THEN Keys(fixed_params.items) ELSE {}

Returned == pc = "returned"

\* C1: a call whose mass is not strictly between 0.01 and 0.99 (the bounds
\* themselves included) ends with the assertion failure and nothing else has
\* run: no shape check, no distribution, no log-CDF, no gradient, no solver,
\* no validation, and nothing is returned.
C1_MassRejectedFirst ==
  (mass <= MassLo \/ mass >= MassHi) =>
    /\ calls = NoCalls
    /\ ~result.returned
    /\ pc \in {"assert_mass", "raised"}
    /\ pc = "raised" => error.kind = "AssertionError"

C1_Witness ==
  pc = "raised" /\ mass = MassHi /\ error.kind = "AssertionError"

\* C2: a call with a valid mass and a family with some non-scalar parameter
\* ends with NotImplementedError before the distribution is constructed, the
\* log-CDF evaluated, the Jacobian built or the solver invoked, whatever
\* init_guess and fixed_params are.
C2_NonScalarRejected ==
  ( /\ MassLo < mass /\ mass < MassHi
    /\ \E i \in DOMAIN pm_dist.ndims_params : pm_dist.ndims_params[i] # 0 ) =>
    /\ calls.dist = 0 /\ calls.logcdf = 0 /\ calls.residual = 0 /\ calls.gradient = 0
    /\ calls.solver = 0 /\ calls.validate = 0
    /\ ~result.returned
    /\ pc \in {"assert_mass", "check_shape", "raised"}
    /\ pc = "raised" => error.kind = "NotImplementedError"

C2_Witness ==
  /\ pc = "raised" /\ error.kind = "NotImplementedError"
  /\ pm_dist.ndims_params = <<0, 1>>
  /\ init_guess # <<>> /\ fixed_params.present

\* C3: in a call that passed the mass and shape checks and whose family has no
\* log-CDF, the first log-CDF evaluation ends the call with the AttributeError
\* naming the family; the solver is never invoked and nothing is returned.
C3_MissingLogcdf ==
  ~pm_dist.has_logcdf =>
    /\ calls.residual = 0 /\ calls.gradient = 0 /\ calls.solver = 0
    /\ ~result.returned
    /\ calls.logcdf > 0 =>
         /\ pc = "raised"
         /\ error = [kind |-> "AttributeError", about |-> pm_dist.name]

C3_Witness ==
  /\ pc = "raised" /\ error.kind = "AttributeError" /\ error.about = "Rice"
  /\ calls.shape = 1 /\ calls.logcdf = 1

\* C4: once gradient construction was attempted the call never ends with a
\* differentiation error; the solver is invoked exactly once, with "2-point"
\* if and only if gradient construction failed and with the analytic Jacobian
\* otherwise.
C4_GradientFallback ==
  calls.gradient > 0 =>
    /\ error.kind \in {"none", "ValueError", "SolverException"}
    /\ pc # "solve" => calls.solver = 1
    /\ calls.solver <= 1
    /\ calls.solver = 1 =>
         /\ solver_args.jac = "2-point" <=> grad_failed
         /\ solver_args.jac = "analytic" <=> ~grad_failed

C4_Witness ==
  calls.solver = 1 /\ grad_failed /\ solver_args.jac = "2-point" /\ Returned

\* C5: the solver is invoked at most once per call; when it reports
\* non-convergence the call ends with the "Optimization of parameters failed."
\* ValueError: no validation, no warning, no parameter map.
C5_NoRetry ==
  /\ calls.solver <= 1
  /\ opt.status = "not_converged" =>
       /\ pc = "raised"
       /\ error = [kind |-> "ValueError", about |-> "Optimization of parameters failed."]
       /\ calls.validate = 0 /\ calls.warn = 0
       /\ opt_params = <<>>
       /\ ~result.returned

C5_Witness ==
  opt.status = "not_converged" /\ pc = "raised" /\ calls.solver = 1

\* C6: when the solver converged the call is never aborted; it warns if and
\* only if the mass re-evaluated at the returned parameters deviates from the
\* requested mass by 0.01 or more, and it returns the merged map either way.
C6_WarnIffTooFar ==
  opt.status = "converged" =>
    /\ pc \in {"save_params", "returned"}
    /\ error = NoError
    /\ Returned =>
         /\ result.returned
         /\ result.value = opt_params
         /\ mass_in_interval = Cdf(result.value, upper) - Cdf(result.value, lower)
         /\ calls.warn = 1 <=> ( \/ mass_in_interval - mass >= Tol
                                 \/ mass - mass_in_interval >= Tol )
         /\ calls.warn \in {0, 1}

C6_Witness ==
  /\ Returned /\ calls.warn = 1
  /\ mass_in_interval - mass = Tol

\* C7: every key of fixed_params is in the returned map with the caller's
\* value, also when it is a key of init_guess (the fixed value wins over the
\* solved one); and no step of the call changes init_guess or fixed_params.
C7_FixedInResult ==
  (Returned /\ fixed_params.present) =>
    \A i \in 1..Len(fixed_params.items) :
      /\ HasKey(result.value, fixed_params.items[i][1])
      /\ Get(result.value, fixed_params.items[i][1]) = fixed_params.items[i][2]

C7_FixedPreserved ==
  /\ []C7_FixedInResult
  /\ [][init_guess' = init_guess /\ fixed_params' = fixed_params]_vars

C7_Witness ==
  /\ Returned /\ fixed_params.present
  /\ \E i \in 1..Len(init_guess) :
       /\ init_guess[i][1] \in FixedKeys
       /\ opt.x[i] # Get(fixed_params.items, init_guess[i][1])
       /\ Get(result.value, init_guess[i][1]) = Get(fixed_params.items, init_guess[i][1])

\* C8: the returned map has exactly the keys of init_guess and fixed_params;
\* the i-th key of init_guess, when not fixed, holds the i-th component of the
\* solver's x, the position at which it was bound to dist_params and at which
\* its initial guess stood in x0.
C8_ResultByPosition ==
  Returned =>
    /\ Keys(result.value) = Keys(init_guess) \cup FixedKeys
    /\ Cardinality(Keys(result.value)) = Len(result.value)
    /\ Len(solver_args.x0) = Len(init_guess)
    /\ \A i \in 1..Len(init_guess) :
         /\ solver_args.x0[i] = init_guess[i][2]
         /\ init_guess[i][1] \notin FixedKeys =>
              /\ Get(result.value, init_guess[i][1]) = opt.x[i]
              /\ Get(params_to_optim, init_guess[i][1]) = [kind |-> "var", n |-> i - 1]

C8_Witness ==
  /\ Returned
  /\ Len(init_guess) = 2
  /\ init_guess[1][2] > init_guess[2][2]
  /\ opt.x[1] # opt.x[2]
  /\ FixedKeys # {} /\ FixedKeys \cap Keys(init_guess) = {}

\* C9: whenever the solver is invoked, init_guess has exactly one or two keys.
C9_OneOrTwoFree ==
  calls.solver > 0 => Len(init_guess) \in {1, 2}

====
